---- MODULE Spec2Model ----
(***************************************************************************)
(* The collision components of The Render Engine:                          *)
(* R.components.collision.Circle and R.components.collision.Box            *)
(* (src/engine/components/collision/circle.js).  One collider component of *)
(* either variant is attached to host objects, has its test mode set, is   *)
(* asked to test candidates and is released to the pool.                   *)
(*                                                                         *)
(* JavaScript values are modelled as follows.  Objects, shapes and         *)
(* CollisionData are records with a "kind" field; null is the record of    *)
(* kind "null", a missing method the record of kind "undefined".  The      *)
(* capability fields hasMethods / hasMethod hold the strings "undefined",  *)
(* "null", "true", "false", "[true]" and "[false]" (the last two are       *)
(* one-element arrays).  An exception leaving testCollision is the result  *)
(* "TypeError" or "ReferenceError".                                        *)
(*                                                                         *)
(* Coordinates are integers and the centers are chosen so that every       *)
(* center distance is an integer (0, 3, 4 or 5): Math.sqrt is exact on     *)
(* them.  A normalized vector is the pair (x, y) over the common           *)
(* denominator den.                                                        *)
(***************************************************************************)
EXTENDS Integers, FiniteSets, Sequences, TLC

VARIABLES
    variant,      \* "Circle" or "Box": the class of the component
    hostObject,   \* the host bound by setHostObject, or NullValue
    hasMethods,   \* the field this.hasMethods
    hasMethod,    \* the field this.hasMethod
    testMode,     \* SIMPLE_TEST or DETAILED_TEST
    collisionModel, \* the collision model the component was created with
    cData,        \* the stored CollisionData, or NullValue
    live,         \* CollisionData created by this collider and not destroyed
    result,       \* what the last testCollision returned or threw
    lastCall,     \* the most recent testCollision call, or NoCall
    interrupted,  \* an attach, mode change or release happened since lastCall
    released,     \* release() was called at least once
    toyPosition,    \* Toy: the point given to the last setPosition
    toyBoundingBox, \* Toy: the box given to the last setBoundingBox
    toySprite,      \* Toy: index of the sprite the render component draws
    toyResult,      \* Toy: what the last onCollide returned, or "none"
    toyCall         \* Toy: the most recent onCollide call, or NoCall

colliderVars ==
    <<variant, hostObject, hasMethods, hasMethod, testMode, collisionModel,
      cData, live, result, lastCall, interrupted, released>>

toyVars == <<toyPosition, toyBoundingBox, toySprite, toyResult, toyCall>>

vars == <<colliderVars, toyVars>>

----------------------------------------------------------------------------
(* Bounds of the model *)

MaxRadius == 2
MaxHalf == 2
MaxLive == 2

----------------------------------------------------------------------------
(* Values *)

CONTINUE == "CONTINUE"
STOP == "STOP"
SIMPLE_TEST == "SIMPLE_TEST"
DETAILED_TEST == "DETAILED_TEST"

NullValue == [kind |-> "null"]
NoMethod == [kind |-> "undefined"]
ReferenceError == [kind |-> "ReferenceError"]
NoCall == [kind |-> "none"]
NotStored == [kind |-> "unchanged"]
NotInvoked == [kind |-> "notInvoked"]

Centers == {<<0, 0>>, <<3, 0>>, <<0, 4>>}

Circles ==
    {[kind |-> "circle", center |-> c, radius |-> r] :
        c \in Centers, r \in 1..MaxRadius}

HalfHeights == {1, 3}

\* Half extents <<halfWidth, halfHeight>> of the boxes: flat and tall ones,
\* so that the longest axis is the width of some boxes and the height of
\* others, and two boxes reach across every center distance
BoxShapes == {e \in (1..MaxHalf) \X HalfHeights : e[1] = 1 \/ e[2] = 1}

Boxes ==
    {[kind |-> "box", center |-> c, halfWidth |-> e[1], halfHeight |-> e[2]] :
        c \in Centers, e \in BoxShapes}

\* The game objects a collider of variant v meets.  A Circle collider reads
\* only getWorldCircle of an object and a Box collider only getWorldBox, so
\* the other accessor is left out.
ObjectsFor(v) ==
    IF v = "Circle"
    THEN {[kind |-> "object", getWorldCircle |-> s, getWorldBox |-> NoMethod] :
            s \in Circles \cup {NoMethod}}
    ELSE {[kind |-> "object", getWorldCircle |-> NoMethod, getWorldBox |-> s] :
            s \in Boxes \cup {NoMethod}}

\* obj.method != undefined, and the truthiness of obj.method
Has(method) == method.kind # "undefined"

\* Truthiness of a capability field
Truthy(v) == v \in {"true", "[true]", "[false]"}

\* v[0] of a capability field holding a one-element array
Index0(v) ==
    IF v = "[true]" THEN "true"
    ELSE IF v = "[false]" THEN "false"
    ELSE "TypeError"

----------------------------------------------------------------------------
(* Geometry *)

Max(a, b) == IF a >= b THEN a ELSE b

Abs(a) == IF a >= 0 THEN a ELSE -a

DistSqr(c1, c2) ==
    (c1[1] - c2[1]) * (c1[1] - c2[1]) + (c1[2] - c2[2]) * (c1[2] - c2[2])

\* Math.sqrt, on the perfect squares the model produces
Sqrt(n) == CHOOSE k \in 0..n : k * k = n

\* R.math.Vector2D.len
VecLen(v) == Sqrt(v[1] * v[1] + v[2] * v[2])

\* R.math.Vector2D.normalize: the vector divided by its length; the zero
\* vector is left as it is
Normalize(v) ==
    LET ln == VecLen(v)
    IN IF ln = 0
       THEN [x |-> 0, y |-> 0, den |-> 1]
       ELSE [x |-> v[1], y |-> v[2], den |-> ln]

\* R.math.Circle2D.isIntersecting: sum of radii against center distance,
\* the boundary not intersecting
CircleIsIntersecting(circle1, circle2) ==
    DistSqr(circle1.center, circle2.center) <
        (circle1.radius + circle2.radius) * (circle1.radius + circle2.radius)

\* R.math.Rectangle2D.isIntersecting: axis-aligned overlap on both axes
RectIsIntersecting(box1, box2) ==
    /\ Abs(box1.center[1] - box2.center[1]) < box1.halfWidth + box2.halfWidth
    /\ Abs(box1.center[2] - box2.center[2]) < box1.halfHeight + box2.halfHeight

\* R.struct.CollisionData.create
CollisionDataCreate(distance, normal, shapeA, shapeB, sep) ==
    [kind |-> "data", distance |-> distance, normal |-> normal,
     shapeA |-> shapeA, shapeB |-> shapeB, separation |-> sep]

----------------------------------------------------------------------------
(* testCollision *)

\* What one testCollision call did after clearing the old data:
\*   result   the value returned, or the exception thrown
\*   data     the CollisionData passed to setCollisionData, or NotStored
\*   created  the number of CollisionData created
\*   invoked  the number of calls of the host's onCollide
\*   overlap  the geometry test of the active mode found an overlap
\*   cbData   the collider's CollisionData during onCollide, or NotInvoked
Outcome(res, data, created, invoked, overlap, cbData) ==
    [result |-> res, data |-> data, created |-> created, invoked |-> invoked,
     overlap |-> overlap, cbData |-> cbData]

NoCollision == Outcome(CONTINUE, NotStored, 0, 0, FALSE, NotInvoked)

Threw(exception, overlap) ==
    Outcome(exception, NotStored, 0, 0, overlap, NotInvoked)

\* R.components.Collider.testCollision, reached by this.base(...): hands the
\* candidate to the host's onCollide and returns its verdict.  visible is
\* the collider's CollisionData at that moment.
BaseTestCollision(verdict, data, created, visible) ==
    Outcome(verdict, data, created, 1, TRUE, visible)

\* ClearOld without its body: the old data is neither destroyed nor cleared
ClearOldKeeps == [destroyed |-> 0, data |-> cData]

\* The leading block of both testCollision methods: destroy and clear the
\* data of the previous call
ClearOld ==
    [destroyed |-> IF cData.kind # "null" THEN 1 ELSE 0, data |-> NullValue]

\* The value of an identifier in a scope binding the names of env; a name
\* bound nowhere raises a ReferenceError
Lookup(id, env) == IF id \in DOMAIN env THEN env[id] ELSE ReferenceError

\* The mode comparison of Circle.testCollision
CircleSimpleMode == testMode = SIMPLE_TEST

CircleEarlyOut(collisionObj) ==
    ~Truthy(Index0(hasMethods)) /\ ~Has(collisionObj.getWorldCircle)

CircleDetailed(host, circle1, circle2) ==
    LET tRad == circle1.radius + circle2.radius
        c1 == circle1.center
        c2 == circle2.center
        distSqr == DistSqr(c1, c2)
    IN IF distSqr < tRad * tRad
       THEN LET diff == tRad - Sqrt(distSqr)
                sep == <<(c2[1] - c1[1]) * diff, (c2[2] - c1[2]) * diff>>
                env == [host |-> host, circle1 |-> circle1, circle2 |-> circle2,
                        tRad |-> tRad, c1 |-> c1, c2 |-> c2,
                        distSqr |-> distSqr, diff |-> diff, sep |-> sep]
                distance == VecLen(sep)
                normal == Normalize(<<c2[1] - c1[1], c2[2] - c1[2]>>)
                shapeA == Lookup("shape1", env)
                shapeB == Lookup("shape2", env)
            IN IF shapeA = ReferenceError \/ shapeB = ReferenceError
               THEN [threw |-> TRUE, overlap |-> TRUE]
               ELSE [threw |-> FALSE, overlap |-> TRUE,
                     data |-> CollisionDataCreate(distance, normal,
                                                  shapeA, shapeB, sep)]
       ELSE [threw |-> FALSE, overlap |-> FALSE]

CircleTestCollision(collisionObj, verdict) ==
    IF CircleEarlyOut(collisionObj)
    THEN NoCollision
    ELSE IF ~Has(hostObject.getWorldCircle) \/ ~Has(collisionObj.getWorldCircle)
    THEN Threw("TypeError", FALSE)
    ELSE LET host == hostObject
             circle1 == host.getWorldCircle
             circle2 == collisionObj.getWorldCircle
         IN IF CircleSimpleMode /\ CircleIsIntersecting(circle1, circle2)
            THEN BaseTestCollision(verdict, NotStored, 0, ClearOld.data)
            ELSE LET d == CircleDetailed(host, circle1, circle2)
                 IN IF d.threw THEN Threw("ReferenceError", TRUE)
                    ELSE IF d.overlap
                    THEN BaseTestCollision(verdict, d.data, 1, d.data)
                    ELSE NoCollision

\* The mode comparison with the two modes taken for each other
BoxSimpleModeInverted == testMode = DETAILED_TEST

\* The mode comparison of Box.testCollision
BoxSimpleMode == testMode = SIMPLE_TEST

BoxEarlyOut(collisionObj) ==
    ~Truthy(hasMethods) /\ ~Has(collisionObj.getWorldBox)

\* BoxDetailed with the shortest axis of each box taken for its radius
BoxDetailedShortestAxis(box1, box2) ==
    LET Min(a, b) == IF a <= b THEN a ELSE b
        tRad == Min(box1.halfWidth, box1.halfHeight)
                    + Min(box2.halfWidth, box2.halfHeight)
        c1 == box1.center
        c2 == box2.center
        distSqr == DistSqr(c1, c2)
    IN IF distSqr < tRad * tRad
       THEN LET diff == tRad - Sqrt(distSqr)
                sep == <<(c2[1] - c1[1]) * diff, (c2[2] - c1[2]) * diff>>
            IN [overlap |-> TRUE,
                data |-> CollisionDataCreate(
                            VecLen(sep),
                            Normalize(<<c2[1] - c1[1], c2[2] - c1[2]>>),
                            NullValue, NullValue, sep)]
       ELSE [overlap |-> FALSE]

\* BoxDetailed with the distance of the stored data added to the new one
BoxDetailedAccumulates(box1, box2) ==
    LET tRad == Max(box1.halfWidth, box1.halfHeight)
                    + Max(box2.halfWidth, box2.halfHeight)
        c1 == box1.center
        c2 == box2.center
        distSqr == DistSqr(c1, c2)
        carried == IF cData.kind = "data" THEN cData.distance ELSE 0
    IN IF distSqr < tRad * tRad
       THEN LET diff == tRad - Sqrt(distSqr)
                sep == <<(c2[1] - c1[1]) * diff, (c2[2] - c1[2]) * diff>>
            IN [overlap |-> TRUE,
                data |-> CollisionDataCreate(
                            VecLen(sep) + carried,
                            Normalize(<<c2[1] - c1[1], c2[2] - c1[2]>>),
                            NullValue, NullValue, sep)]
       ELSE [overlap |-> FALSE]

BoxDetailed(box1, box2) ==
    LET tRad == Max(box1.halfWidth, box1.halfHeight)
                    + Max(box2.halfWidth, box2.halfHeight)
        c1 == box1.center
        c2 == box2.center
        distSqr == DistSqr(c1, c2)
    IN IF distSqr < tRad * tRad
       THEN LET diff == tRad - Sqrt(distSqr)
                sep == <<(c2[1] - c1[1]) * diff, (c2[2] - c1[2]) * diff>>
            IN [overlap |-> TRUE,
                data |-> CollisionDataCreate(
                            VecLen(sep),
                            Normalize(<<c2[1] - c1[1], c2[2] - c1[2]>>),
                            NullValue, NullValue, sep)]
       ELSE [overlap |-> FALSE]

\* BoxTestCollision with the detailed branch calling the host before it
\* stores the new data
BoxTestCollisionCallbackFirst(collisionObj, verdict) ==
    IF BoxEarlyOut(collisionObj)
    THEN NoCollision
    ELSE IF ~Has(hostObject.getWorldBox) \/ ~Has(collisionObj.getWorldBox)
    THEN Threw("TypeError", FALSE)
    ELSE LET host == hostObject
             box1 == host.getWorldBox
             box2 == collisionObj.getWorldBox
         IN IF BoxSimpleMode
            THEN IF RectIsIntersecting(box1, box2)
                 THEN BaseTestCollision(verdict, NotStored, 0, ClearOld.data)
                 ELSE NoCollision
            ELSE LET d == BoxDetailed(box1, box2)
                 IN IF d.overlap
                    THEN BaseTestCollision(verdict, d.data, 1, ClearOld.data)
                    ELSE NoCollision

BoxTestCollision(collisionObj, verdict) ==
    IF BoxEarlyOut(collisionObj)
    THEN NoCollision
    ELSE IF ~Has(hostObject.getWorldBox) \/ ~Has(collisionObj.getWorldBox)
    THEN Threw("TypeError", FALSE)
    ELSE LET host == hostObject
             box1 == host.getWorldBox
             box2 == collisionObj.getWorldBox
         IN IF BoxSimpleMode
            THEN IF RectIsIntersecting(box1, box2)
                 THEN BaseTestCollision(verdict, NotStored, 0, ClearOld.data)
                 ELSE NoCollision
            ELSE LET d == BoxDetailed(box1, box2)
                 IN IF d.overlap
                    THEN BaseTestCollision(verdict, d.data, 1, d.data)
                    ELSE NoCollision

----------------------------------------------------------------------------
(* Operations *)

\* The bounding boxes of the two sprites of a toy (normal, over), as half
\* extents
SpriteBoxes ==
    <<[halfWidth |-> 1, halfHeight |-> 1], [halfWidth |-> 2, halfHeight |-> 1]>>

\* Where a new toy is put
StartPosition == <<25, 15>>

\* The objects the collision model hands to Toy.onCollide: players, which
\* are 2D objects with a world box, and anything else
ToyObjects ==
    {[kind |-> "object", isPlayer |-> TRUE, getWorldBox |-> b] :
        b \in Boxes \cup {[kind |-> "box", center |-> <<26, 16>>,
                            halfWidth |-> 1, halfHeight |-> 1]}}
    \cup {[kind |-> "object", isPlayer |-> FALSE, getWorldBox |-> b] :
            b \in {NoMethod,
                   [kind |-> "box", center |-> <<1, 1>>,
                    halfWidth |-> 1, halfHeight |-> 1]}}

\* Object2D.getWorldBox of the toy: its bounding box, whose origin is its
\* top left corner, moved to its position
ToyWorldBox ==
    [kind |-> "box",
     center |-> <<toyPosition[1] + toyBoundingBox.halfWidth,
                  toyPosition[2] + toyBoundingBox.halfHeight>>,
     halfWidth |-> toyBoundingBox.halfWidth,
     halfHeight |-> toyBoundingBox.halfHeight]

\* Toy.setSprite
ToySetSprite(spriteIdx) ==
    /\ toyBoundingBox' = SpriteBoxes[spriteIdx + 1]
    /\ toySprite' = spriteIdx

\* The condition of onCollide without the Player test
ToyTouchedByAnything(obj) ==
    /\ Has(obj.getWorldBox)
    /\ RectIsIntersecting(ToyWorldBox, obj.getWorldBox)

\* The condition of Toy.onCollide
ToyTouchedByPlayer(obj) ==
    /\ obj.isPlayer
    /\ RectIsIntersecting(ToyWorldBox, obj.getWorldBox)

\* Toy.setPosition
ToySetPosition(point) ==
    /\ toyPosition # point
    /\ toyPosition' = point
    /\ UNCHANGED <<toyBoundingBox, toySprite, toyResult, toyCall>>
    /\ UNCHANGED colliderVars

\* Toy.onCollide
ToyOnCollide(obj) ==
    /\ IF ToyTouchedByPlayer(obj)
       THEN ToySetSprite(1) /\ toyResult' = STOP
       ELSE ToySetSprite(0) /\ toyResult' = CONTINUE
    /\ toyCall' = [kind |-> "call", obj |-> obj, worldBox |-> ToyWorldBox]
    /\ UNCHANGED toyPosition
    /\ UNCHANGED colliderVars

Init ==
    /\ variant \in {"Circle", "Box"}
    /\ hostObject = NullValue
    /\ hasMethods = IF variant = "Circle" THEN "null" ELSE "undefined"
    /\ hasMethod = IF variant = "Circle" THEN "undefined" ELSE "false"
    /\ testMode = SIMPLE_TEST
    /\ collisionModel = "cModel"
    /\ cData = NullValue
    /\ live = 0
    /\ result = "none"
    /\ lastCall = NoCall
    /\ interrupted = FALSE
    /\ released = FALSE
    /\ toyPosition = StartPosition
    /\ toyBoundingBox = SpriteBoxes[1]
    /\ toySprite = 0
    /\ toyResult = "none"
    /\ toyCall = NoCall

\* setHostObject(hostObj) of the two variants
CircleSetHostObject(hostObj) ==
    /\ variant = "Circle"
    /\ hostObject' = hostObj
    /\ hasMethods' = IF Has(hostObj.getWorldCircle) THEN "[true]" ELSE "[false]"
    /\ UNCHANGED hasMethod

BoxSetHostObject(hostObj) ==
    /\ variant = "Box"
    /\ hostObject' = hostObj
    /\ hasMethod' = IF Has(hostObj.getWorldBox) THEN "true" ELSE "false"
    /\ UNCHANGED hasMethods

Attach(hostObj) ==
    /\ CircleSetHostObject(hostObj) \/ BoxSetHostObject(hostObj)
    /\ interrupted' = TRUE
    /\ UNCHANGED <<variant, testMode, collisionModel, cData, live, result,
                   lastCall, released>>
    /\ UNCHANGED toyVars

\* R.components.Collider.setTestMode
SetTestMode(mode) ==
    /\ testMode # mode
    /\ testMode' = mode
    /\ interrupted' = TRUE
    /\ UNCHANGED <<variant, hostObject, hasMethods, hasMethod, collisionModel,
                   cData, live, result, lastCall, released>>
    /\ UNCHANGED toyVars

\* R.components.Collider.release, reached by this.base(): the component
\* goes back to the pool with no host, no collision model and no
\* CollisionData
BaseRelease ==
    /\ hostObject' = NullValue
    /\ collisionModel' = "null"
    /\ cData' = NullValue

CircleRelease ==
    /\ variant = "Circle"
    /\ BaseRelease
    /\ hasMethod' = "null"
    /\ UNCHANGED hasMethods

BoxRelease ==
    /\ variant = "Box"
    /\ BaseRelease
    /\ hasMethod' = "false"
    /\ UNCHANGED hasMethods

Release ==
    /\ hostObject.kind = "object"
    /\ CircleRelease \/ BoxRelease
    /\ interrupted' = TRUE
    /\ released' = TRUE
    /\ UNCHANGED <<variant, testMode, live, result, lastCall>>
    /\ UNCHANGED toyVars

\* testCollision with a test mode that falls back to the default
TestCollisionResetsMode ==
    /\ testMode' = SIMPLE_TEST
    /\ UNCHANGED <<hostObject, hasMethods, hasMethod, collisionModel>>

\* The fields of the component that no statement of either testCollision
\* assigns
TestCollisionKeeps ==
    UNCHANGED <<hostObject, hasMethods, hasMethod, testMode, collisionModel>>

\* testCollision(time, collisionObj, hostMask, targetMask) on an attached
\* collider; verdict is what the host's onCollide answers if it is asked
TestCollision(collisionObj, verdict) ==
    /\ hostObject.kind = "object"
    /\ LET out == IF variant = "Circle"
                  THEN CircleTestCollision(collisionObj, verdict)
                  ELSE BoxTestCollision(collisionObj, verdict)
           asked == IF out.invoked > 0 THEN verdict ELSE "none"
       IN /\ out.invoked > 0 \/ verdict = CONTINUE  \* no answer unless asked
          /\ live - ClearOld.destroyed + out.created <= MaxLive
          /\ cData' = IF out.data = NotStored THEN ClearOld.data ELSE out.data
          /\ live' = live - ClearOld.destroyed + out.created
          /\ result' = out.result
          /\ lastCall' = [kind |-> "call",
                          candidate |-> collisionObj,
                          mode |-> testMode,
                          verdict |-> asked,
                          overlap |-> out.overlap,
                          invoked |-> out.invoked,
                          created |-> out.created,
                          cbData |-> out.cbData,
                          repeated |-> /\ ~interrupted
                                       /\ lastCall.kind = "call"
                                       /\ lastCall.candidate = collisionObj
                                       /\ \/ lastCall.verdict = asked
                                          \/ lastCall.verdict = "none"
                                          \/ asked = "none"]
    /\ interrupted' = FALSE
    /\ TestCollisionKeeps
    /\ UNCHANGED <<variant, released>>
    /\ UNCHANGED toyVars

Next ==
    \/ \E hostObj \in ObjectsFor(variant) : Attach(hostObj)
    \/ \E mode \in {SIMPLE_TEST, DETAILED_TEST} : SetTestMode(mode)
    \/ \E collisionObj \in ObjectsFor(variant), verdict \in {CONTINUE, STOP} :
            TestCollision(collisionObj, verdict)
    \/ Release

Spec == Init /\ [][Next]_vars

\* A toy in the playfield: it is moved, and the collision model reports the
\* objects near it
ToyNext ==
    \/ \E point \in Centers \cup {StartPosition} : ToySetPosition(point)
    \/ \E obj \in ToyObjects : ToyOnCollide(obj)

SpecToy == Init /\ [][ToyNext]_vars

----------------------------------------------------------------------------
(* Geometry of the most recent call, for the properties below.  They are  *)
(* used only where the host is still the one the call was made on.        *)

CallMade == lastCall.kind = "call"

\* The last operation was a testCollision call: hostObject and testMode are
\* those of the call
JustTested == CallMade /\ ~interrupted

HostCircle == hostObject.getWorldCircle

CandCircle == lastCall.candidate.getWorldCircle

BothCircles == Has(HostCircle) /\ Has(CandCircle)

CircleDistSqr == DistSqr(HostCircle.center, CandCircle.center)

CircleRadii == HostCircle.radius + CandCircle.radius

HostBox == hostObject.getWorldBox

CandBox == lastCall.candidate.getWorldBox

BothBoxes == Has(HostBox) /\ Has(CandBox)

BoxDistSqr == DistSqr(HostBox.center, CandBox.center)

\* The combined radius of the two boxes' bounding circles
BoxRadii ==
    Max(HostBox.halfWidth, HostBox.halfHeight)
        + Max(CandBox.halfWidth, CandBox.halfHeight)

\* The centers of the host's and the candidate's shape and the combined
\* radius the detailed test of the collider's variant works with
FirstCenter ==
    IF variant = "Circle" THEN HostCircle.center ELSE HostBox.center

SecondCenter ==
    IF variant = "Circle" THEN CandCircle.center ELSE CandBox.center

CombinedRadius == IF variant = "Circle" THEN CircleRadii ELSE BoxRadii

\* The last operation was a Box testCollision in DETAILED_TEST mode on two
\* objects that both have a world box
BoxDetailedTested ==
    /\ variant = "Box"
    /\ JustTested
    /\ lastCall.mode = DETAILED_TEST
    /\ BothBoxes

----------------------------------------------------------------------------
(* Properties *)

\* C1: as long as the collider is only attached and tested, each
\* testCollision destroys and clears the data of the call before it: the
\* collider holds a CollisionData only if its most recent testCollision found
\* an overlap in DETAILED_TEST mode, and the CollisionData it created and did
\* not destroy are exactly the one it holds, never more than one.
C1_OldDataDestroyedFirst ==
    ~released =>
        /\ live = (IF cData.kind = "data" THEN 1 ELSE 0)
        /\ cData.kind = "data" =>
                /\ CallMade
                /\ lastCall.overlap
                /\ lastCall.mode = DETAILED_TEST

\* A second detailed collision in a row: the data of the first was destroyed
\* and one new CollisionData is held.
C1_Witness ==
    /\ ~released
    /\ CallMade
    /\ lastCall.repeated
    /\ lastCall.created = 1
    /\ cData.kind = "data"
    /\ live = 1

\* C2: for both variants and both modes, a testCollision that detects an
\* overlap returns the verdict of the host's collision callback.
C2_OverlapReturnsVerdict ==
    (CallMade /\ lastCall.overlap) =>
        /\ lastCall.invoked = 1
        /\ result \in {CONTINUE, STOP}
        /\ result = lastCall.verdict

\* C3: a Box collider whose host has no getWorldBox returns CONTINUE from
\* every testCollision, whatever the candidate and the mode, and creates no
\* CollisionData.
C3_BoxHostWithoutAccessor ==
    (variant = "Box" /\ JustTested /\ ~Has(hostObject.getWorldBox)) =>
        /\ result = CONTINUE
        /\ lastCall.created = 0
        /\ cData.kind = "null"

\* C4: a Circle collider's testCollision with a host or a candidate that has
\* no getWorldCircle returns CONTINUE, does not call the host's callback and
\* stores no CollisionData.
C4_CircleMissingAccessor ==
    (variant = "Circle" /\ JustTested /\ ~BothCircles) =>
        /\ result = CONTINUE
        /\ lastCall.invoked = 0
        /\ cData.kind = "null"

\* C5: after release() the collider holds no CollisionData and its
\* capability cache is at its initial value: hasMethods null for Circle,
\* hasMethod false for Box.
C5_ReleaseResets ==
    (released /\ hostObject.kind = "null") =>
        /\ cData.kind = "null"
        /\ variant = "Circle" => hasMethods = "null"
        /\ variant = "Box" => hasMethod = "false"

\* C6: in Circle DETAILED_TEST mode a detected overlap ends with the
\* callback's verdict returned and a stored CollisionData whose shapeA is the
\* host's world circle and whose shapeB is the candidate's.
C6_CircleDetailedShapes ==
    (variant = "Circle" /\ JustTested /\ lastCall.mode = DETAILED_TEST
        /\ lastCall.overlap) =>
        /\ result = lastCall.verdict
        /\ cData.kind = "data"
        /\ cData.shapeA = HostCircle
        /\ cData.shapeB = CandCircle

\* C7: in both modes the Circle collider calls the host's callback if and
\* only if d*d < (r1+r2)*(r1+r2), and returns CONTINUE when it is not.
C7_CircleCollisionIffCloser ==
    (variant = "Circle" /\ JustTested /\ BothCircles) =>
        /\ lastCall.invoked = 1 <=> CircleDistSqr < CircleRadii * CircleRadii
        /\ ~(CircleDistSqr < CircleRadii * CircleRadii) => result = CONTINUE

\* C8: in Circle DETAILED_TEST mode, for overlapping circles with centers a
\* distance d > 0 apart, the stored normal is the unit vector from the host's
\* center to the candidate's and the stored separation is that normal times
\* the penetration depth r1 + r2 - d.
C8_CircleNormalAndSeparation ==
    (variant = "Circle" /\ JustTested /\ lastCall.mode = DETAILED_TEST
        /\ BothCircles /\ CircleDistSqr > 0
        /\ CircleDistSqr < CircleRadii * CircleRadii) =>
        LET d == Sqrt(CircleDistSqr)
            dx == CandCircle.center[1] - HostCircle.center[1]
            dy == CandCircle.center[2] - HostCircle.center[2]
        IN /\ cData.kind = "data"
           /\ cData.normal.x * d = dx * cData.normal.den
           /\ cData.normal.y * d = dy * cData.normal.den
           /\ cData.separation[1] * d = dx * (CircleRadii - d)
           /\ cData.separation[2] * d = dy * (CircleRadii - d)

\* C9: a testCollision that repeats the call before it (same collider, same
\* candidate, same mode, the callback answering alike) returns what that
\* call returned and leaves a CollisionData equal to the one it left.
C9_RepeatedTestIsIdempotent ==
    [][(~interrupted' /\ lastCall'.kind = "call" /\ lastCall'.repeated) =>
            (result' = result /\ cData' = cData)]_vars

\* The second of two detailed Box collisions in a row, stopped by the host.
C9_Witness ==
    /\ JustTested
    /\ lastCall.repeated
    /\ result = STOP
    /\ cData.kind = "data"
    /\ cData.distance > 0

\* C10: a testCollision made in SIMPLE_TEST mode creates no CollisionData
\* and leaves none stored, whether or not it found an intersection.
C10_SimpleModeStoresNothing ==
    (CallMade /\ lastCall.mode = SIMPLE_TEST) =>
        /\ lastCall.created = 0
        /\ cData.kind = "null"

\* A simple test that found an intersection and called the host: nothing is
\* created and nothing is stored.
C10_Witness ==
    /\ JustTested
    /\ lastCall.mode = SIMPLE_TEST
    /\ lastCall.overlap
    /\ lastCall.invoked = 1
    /\ live = 0
    /\ cData.kind = "null"

\* C11: in Box DETAILED_TEST mode an overlap is detected, and the host's
\* callback called, if and only if the squared distance of the box centers is
\* less than the square of max(halfWidth1, halfHeight1) + max(halfWidth2,
\* halfHeight2); when it is not, testCollision returns CONTINUE, calls no
\* callback and leaves no CollisionData.
C11_BoxDetailedOverlapIffCloser ==
    BoxDetailedTested =>
        /\ lastCall.overlap <=> BoxDistSqr < BoxRadii * BoxRadii
        /\ lastCall.invoked = 1 <=> BoxDistSqr < BoxRadii * BoxRadii
        /\ ~(BoxDistSqr < BoxRadii * BoxRadii) =>
                /\ result = CONTINUE
                /\ lastCall.invoked = 0
                /\ cData.kind = "null"

\* Two boxes with half extents (1,1) whose centers are 5 apart: combined
\* radius 2, no collision.
C11_Witness ==
    /\ BoxDetailedTested
    /\ HostBox.halfWidth = 1 /\ HostBox.halfHeight = 1
    /\ CandBox.halfWidth = 1 /\ CandBox.halfHeight = 1
    /\ BoxDistSqr = 25
    /\ result = CONTINUE
    /\ cData.kind = "null"

\* A detailed Box collision decided by the heights of two tall boxes.
C11_WitnessOverlap ==
    /\ BoxDetailedTested
    /\ HostBox.halfWidth < HostBox.halfHeight
    /\ CandBox.halfWidth < CandBox.halfHeight
    /\ BoxDistSqr = 25
    /\ lastCall.invoked = 1
    /\ cData.kind = "data"

\* C12: the distance of every stored CollisionData is the Euclidean norm of
\* its separation vector, and is not negative.
C12_DistanceIsNormOfSeparation ==
    cData.kind = "data" =>
        /\ cData.distance * cData.distance =
                cData.separation[1] * cData.separation[1]
                    + cData.separation[2] * cData.separation[2]
        /\ cData.distance >= 0

\* A stored separation with two non-zero components: centers 5 apart,
\* (-3, 4) or (3, -4), under two tall boxes of combined radius 6.
C12_Witness ==
    /\ cData.kind = "data"
    /\ cData.separation[1] # 0
    /\ cData.separation[2] # 0
    /\ cData.distance = 5

\* C13: within one testCollision the host's callback is called exactly once
\* if the geometry test of the active mode finds an overlap and not at all
\* otherwise, and where it is not called the return value is CONTINUE.
C13_CallbackOnceIffOverlap ==
    CallMade =>
        /\ lastCall.overlap => lastCall.invoked = 1
        /\ ~lastCall.overlap => (lastCall.invoked = 0 /\ result = CONTINUE)

\* C14: the normal of every stored CollisionData has unit length and points
\* from the first shape's center to the second's, coincident centers
\* included.
C14_NormalIsUnitVector ==
    (JustTested /\ cData.kind = "data") =>
        LET n == cData.normal
            d == Sqrt(DistSqr(FirstCenter, SecondCenter))
        IN /\ n.x * n.x + n.y * n.y = n.den * n.den
           /\ n.x * d = (SecondCenter[1] - FirstCenter[1]) * n.den
           /\ n.y * d = (SecondCenter[2] - FirstCenter[2]) * n.den

\* C15: while the host's callback runs, the collider's CollisionData is, in
\* DETAILED_TEST mode, the one built for the candidate being reported (the
\* one the call leaves stored), and in SIMPLE_TEST mode absent.
C15_DataStoredBeforeCallback ==
    (JustTested /\ lastCall.invoked > 0) =>
        IF lastCall.mode = DETAILED_TEST
        THEN LET diff == CombinedRadius
                            - Sqrt(DistSqr(FirstCenter, SecondCenter))
             IN /\ lastCall.cbData.kind = "data"
                /\ lastCall.cbData = cData
                /\ lastCall.cbData.separation =
                        <<(SecondCenter[1] - FirstCenter[1]) * diff,
                          (SecondCenter[2] - FirstCenter[2]) * diff>>
        ELSE lastCall.cbData.kind = "null"

\* The host is called about a detailed collision and sees its data.
C15_Witness ==
    /\ JustTested
    /\ lastCall.mode = DETAILED_TEST
    /\ lastCall.invoked = 1
    /\ lastCall.cbData.kind = "data"
    /\ lastCall.cbData.distance > 0
    /\ ~lastCall.repeated

\* C16: a testCollision call, whatever its outcome, leaves the test mode,
\* the host binding, the collision model reference and the capability cache
\* as they were.
C16_TestCollisionChangesOnlyData ==
    [][(~interrupted' /\ lastCall'.kind = "call") =>
            /\ testMode' = testMode
            /\ hostObject' = hostObject
            /\ collisionModel' = collisionModel
            /\ hasMethods' = hasMethods
            /\ hasMethod' = hasMethod]_vars

\* A detailed collision stopped by the host: data stored, the rest as set
\* up before the call.
C16_Witness ==
    /\ JustTested
    /\ lastCall.overlap
    /\ result = STOP
    /\ cData.kind = "data"
    /\ testMode = DETAILED_TEST
    /\ collisionModel = "cModel"
    /\ hasMethod = "true"

\* C17: Toy.onCollide returns STOP and shows sprite 1 exactly when the object
\* is a Player whose world box intersects the world box the toy had at the
\* call; otherwise it shows sprite 0 and returns CONTINUE.  So after any
\* onCollide calls sprite 1 shows iff the most recent one returned STOP.
C17_ToyStopsOnPlayer ==
    toyCall.kind = "call" =>
        LET playerTouches ==
                /\ toyCall.obj.isPlayer
                /\ RectIsIntersecting(toyCall.worldBox, toyCall.obj.getWorldBox)
        IN /\ playerTouches => (toyResult = STOP /\ toySprite = 1)
           /\ ~playerTouches => (toyResult = CONTINUE /\ toySprite = 0)
           /\ toySprite = 1 <=> toyResult = STOP
           /\ toyBoundingBox = SpriteBoxes[toySprite + 1]

\* A player touched a toy that had been moved
C17_Witness ==
    /\ toyCall.kind = "call"
    /\ toyCall.obj.isPlayer
    /\ toyPosition # StartPosition
    /\ toyResult = STOP
    /\ toySprite = 1

\* After a touch, an object that is not a player overlaps the toy
C17_WitnessOther ==
    /\ toyCall.kind = "call"
    /\ ~toyCall.obj.isPlayer
    /\ Has(toyCall.obj.getWorldBox)
    /\ RectIsIntersecting(toyCall.worldBox, toyCall.obj.getWorldBox)
    /\ toyCall.worldBox.halfWidth = 2
    /\ toyResult = CONTINUE

====
